---- MODULE Spec2Model ----
(***************************************************************************)
(* One HTTP request served through the react-router node adapters:         *)
(*   packages/react-router-express/server.ts      (createRequest,          *)
(*                                                 sendResponse)            *)
(*   packages/react-router-dev/vite/node-adapter.ts (fromNodeRequest,      *)
(*                                                 toNodeRequest)           *)
(*   playground/compiler-express/app/entry.server.tsx (handleRequest,      *)
(*                          handleBotRequest, handleBrowserRequest,         *)
(*                          createReadableStreamFromReadable)               *)
(* The render engine (react-dom/server renderToPipeableStream), the        *)
(* response sink's event emitter and the timer queue are the environment.  *)
(***************************************************************************)
EXTENDS Integers, Sequences, FiniteSets, TLC

\* ------------------------------------------------------------------ bounds
\* Most 'finish'/'close' events the sink emits in one behaviour.
MaxSinkEvents == 2
\* Most body chunks the render engine writes to its destination.
MaxChunks == 2
\* Most onError reports the engine makes on its own (abort adds its own).
MaxErrors == 1
\* Clock steps per ABORT_DELAY (the clock's granularity).
TicksPerDelay == 1

\* ------------------------------------------------------- program constants
ABORT_DELAY == 5000

TimeStep == ABORT_DELAY \div TicksPerDelay

\* ------------------------------------------------------------------ inputs
Adapters == {"express", "vite"}
NoUserAgent == "<none>"
BotAgents == {"Googlebot"}
UserAgents == {"Googlebot", "Mozilla", NoUserAgent}
Errs == {"e1", "e2"}
\* The recoverable errors of one render, in the order they occur.
ErrSeq == <<"e1", "e2", "e3">>
AbortErr == "aborted"
NoValue == "<none>"

VARIABLES
  adapter,            \* which node adapter serves the request
  userAgent,          \* the request's user-agent header, or NoUserAgent
  callerStatus,       \* responseStatusCode as passed to handleRequest
  hpc,                \* position of the adapter's request handler
  token,              \* createRequest's controller variable and its signal
  sinkEvents,         \* 'finish'/'close' events the sink has emitted so far
  sink,               \* what the flusher did to the native response
  nextError,          \* the error handed to express's next(), or NoValue
  strategy,           \* which of handleBotRequest/handleBrowserRequest ran
  registered,         \* callbacks given to renderToPipeableStream
  engine,             \* render engine stage
  closure,            \* variables closed over by the entry module's callbacks
  calls,              \* callbacks the engine has invoked, in order
  emitted,            \* number of chunks the engine wrote to the PassThrough
  srcEnded,           \* the engine ended the PassThrough
  body,               \* the ReadableStream made by createReadableStreamFromReadable
  timers,             \* setTimeout entries: armed at, delay, callback, fired
  now,                \* the clock, in ms
  abortCalls,         \* who invoked the render engine's abort, in order
  midStreamClose,     \* the sink emitted 'close' between the head and end()
  req                 \* the native request: method, socket stream, Request body

vars == <<adapter, userAgent, callerStatus, hpc, token, sinkEvents, sink,
          nextError, strategy, registered, engine, closure, calls, emitted,
          srcEnded, body, timers, now, abortCalls, midStreamClose, req>>

\* ----------------------------------------------------------------- helpers
Last(s) == s[Len(s)]

Range(s) == {s[i] : i \in 1..Len(s)}

IsPrefix(s, t) == Len(s) <= Len(t) /\ \A i \in 1..Len(s) : s[i] = t[i]

UpTo(n) == [i \in 1..n |-> i]

\* Headers: a sequence of <<name, value>> with lower-cased names.
HeadersGet(h, name) ==
  IF \E i \in 1..Len(h) : h[i][1] = name
  THEN h[CHOOSE i \in 1..Len(h) : h[i][1] = name /\ \A j \in 1..(i-1) : h[j][1] # name][2]
  ELSE NoValue

\* Headers.set: replaces every value held under the name, appends when absent.
HeadersSet(h, name, value) ==
  IF \E i \in 1..Len(h) : h[i][1] = name
  THEN LET first == CHOOSE i \in 1..Len(h) :
                      h[i][1] = name /\ \A j \in 1..(i-1) : h[j][1] # name
           keep == {i \in 1..Len(h) : h[i][1] # name \/ i = first}
           idx == [k \in 1..Cardinality(keep) |->
                     CHOOSE i \in keep : Cardinality({j \in keep : j < i}) = k - 1]
       IN [k \in 1..Cardinality(keep) |->
             IF idx[k] = first THEN <<name, value>> ELSE h[idx[k]]]
  ELSE Append(h, <<name, value>>)

\* What the caller of handleRequest passes as responseStatusCode and
\* responseHeaders.
CallerInputs ==
  { [status |-> 200, headers |-> <<>>],
    [status |-> 404,
     headers |-> << <<"content-type", "application/json">>, <<"x-powered-by", "rr">> >>] }

\* ---------------------------------------------------- cancellation token
\* server.ts:64 / node-adapter.ts:46: let controller = new AbortController()
NewToken == [controller |-> "set", aborted |-> FALSE]

NoToken == [controller |-> "unset", aborted |-> FALSE]

\* AbortController.abort(): the signal's aborted flag is set and stays set.
ControllerAbort(t) == [t EXCEPT !.aborted = TRUE]

\* Faulty variant: 'close' aborts whether or not the response has finished.
createRequest_onClose_always(t) == ControllerAbort(t)

\* Faulty variant: 'finish' leaves the controller in place.
fromNodeRequest_onFinish_keeps(t) == t

\* server.ts:75   res.on("finish", () => (controller = null))
createRequest_onFinish(t) == [t EXCEPT !.controller = "null"]

\* server.ts:76   res.on("close", () => controller?.abort())
createRequest_onClose(t) == IF t.controller = "null" THEN t ELSE ControllerAbort(t)

\* node-adapter.ts:57   res.on("finish", () => (controller = null))
fromNodeRequest_onFinish(t) == [t EXCEPT !.controller = "null"]

\* node-adapter.ts:58   res.on("close", () => controller?.abort())
fromNodeRequest_onClose(t) == IF t.controller = "null" THEN t ELSE ControllerAbort(t)

\* The three-state token the nullable controller and its signal encode.
TokenState ==
  IF token.aborted THEN "aborted"
  ELSE IF token.controller = "null" THEN "finished"
  ELSE "active"

\* request.signal.aborted as any holder of the Request observes it.
SignalAborted == token.aborted

\* ------------------------------------------------------------- promise
PendingPromise == [state |-> "pending", value |-> NoValue]

\* resolve()/reject() of the Promise executor: only the first call settles.
Resolve(p, v) == IF p.state = "pending" THEN [state |-> "resolved", value |-> v] ELSE p

Reject(p, e) == IF p.state = "pending" THEN [state |-> "rejected", value |-> e] ELSE p

\* new Response(body, {headers, status}): status by value, headers copied.
NewResponse(headers, status) ==
  [status |-> status, statusText |-> "", headers |-> headers, hasBody |-> TRUE]

\* ------------------------------------- entry.server.tsx callbacks (closure)
NewClosure(status, headers) ==
  [ shellRendered      |-> FALSE,
    responseStatusCode |-> status,
    responseHeaders    |-> headers,
    promise            |-> PendingPromise,
    pipeCalled         |-> FALSE,
    log                |-> <<>> ]

\* Faulty variant: the Response is built without the status option.
handleBotRequest_onAllReady_defaultStatus(c) ==
  LET hs == HeadersSet(c.responseHeaders, "content-type", "text/html")
  IN [c EXCEPT !.shellRendered = TRUE,
               !.responseHeaders = hs,
               !.promise = Resolve(@, NewResponse(hs, 200)),
               !.pipeCalled = TRUE]

\* entry.server.tsx:46-61
handleBotRequest_onAllReady(c) ==
  LET hs == HeadersSet(c.responseHeaders, "content-type", "text/html")
  IN [c EXCEPT !.shellRendered = TRUE,
               !.responseHeaders = hs,
               !.promise = Resolve(@, NewResponse(hs, c.responseStatusCode)),
               !.pipeCalled = TRUE]

\* Faulty variant: the shell error is swallowed.
handleBotRequest_onShellError_swallows(c, error) == c

\* entry.server.tsx:62-64
handleBotRequest_onShellError(c, error) == [c EXCEPT !.promise = Reject(@, error)]

\* Faulty variant: the error is logged whatever shellRendered says.
handleBotRequest_onError_alwaysLogs(c, error) ==
  [c EXCEPT !.responseStatusCode = 500, !.log = Append(@, error)]

\* entry.server.tsx:65-73
handleBotRequest_onError(c, error) ==
  [c EXCEPT !.responseStatusCode = 500,
            !.log = IF c.shellRendered THEN Append(@, error) ELSE @]

\* entry.server.tsx:96-111
handleBrowserRequest_onShellReady(c) ==
  LET hs == HeadersSet(c.responseHeaders, "content-type", "text/html")
  IN [c EXCEPT !.shellRendered = TRUE,
               !.responseHeaders = hs,
               !.promise = Resolve(@, NewResponse(hs, c.responseStatusCode)),
               !.pipeCalled = TRUE]

\* entry.server.tsx:112-114
handleBrowserRequest_onShellError(c, error) == [c EXCEPT !.promise = Reject(@, error)]

\* Faulty variant: the error is never logged.
handleBrowserRequest_onError_silent(c, error) == [c EXCEPT !.responseStatusCode = 500]

\* entry.server.tsx:115-123
handleBrowserRequest_onError(c, error) ==
  [c EXCEPT !.responseStatusCode = 500,
            !.log = IF c.shellRendered THEN Append(@, error) ELSE @]

\* isbot(ua) from the isbot package: a pure predicate on the header value.
isbot(ua) == ua \in BotAgents

\* Faulty variant: the branches of the conditional are swapped.
handleRequest_strategy_swapped(ua) ==
  IF isbot(IF ua = NoUserAgent THEN "" ELSE ua) THEN "browser" ELSE "bot"

\* entry.server.tsx:16   isbot(request.headers.get("user-agent") || "")
handleRequest_strategy(ua) ==
  IF isbot(IF ua = NoUserAgent THEN "" ELSE ua) THEN "bot" ELSE "browser"

\* The options object handed to renderToPipeableStream by each strategy.
handleBotRequest_callbacks == {"onAllReady", "onShellError", "onError"}

handleBrowserRequest_callbacks == {"onShellReady", "onShellError", "onError"}

\* entry.server.tsx:77 / :127   setTimeout(abort, ABORT_DELAY)
\* Faulty variant: the timer is armed without a delay.
handleBrowserRequest_timer_noDelay == [callback |-> "abort", delay |-> 0]

handleBotRequest_timer == [callback |-> "abort", delay |-> ABORT_DELAY]

handleBrowserRequest_timer == [callback |-> "abort", delay |-> ABORT_DELAY]

\* setTimeout(callback, delay) called at time t.
SetTimeout(args, t) ==
  [armedAt |-> t, delay |-> args.delay, callback |-> args.callback, fired |-> FALSE]

\* The engine calls one of the callbacks it was given; a callback that was
\* not registered does not exist for it.
Invoke(strat, cbs, name, error, c) ==
  IF name \notin cbs THEN c
  ELSE IF strat = "bot" THEN
    CASE name = "onAllReady"   -> handleBotRequest_onAllReady(c)
      [] name = "onShellError" -> handleBotRequest_onShellError(c, error)
      [] name = "onError"      -> handleBotRequest_onError(c, error)
  ELSE
    CASE name = "onShellReady" -> handleBrowserRequest_onShellReady(c)
      [] name = "onShellError" -> handleBrowserRequest_onShellError(c, error)
      [] name = "onError"      -> handleBrowserRequest_onError(c, error)

\* The call record the engine leaves for a callback it was given.
Called(cbs, name, error) == IF name \in cbs THEN << <<name, error>> >> ELSE <<>>

\* ---------------------------------- createReadableStreamFromReadable
NewBody == [queue |-> <<>>, closed |-> FALSE]

\* Faulty variant: the newest chunk goes to the front of the queue.
createReadableStreamFromReadable_onData_front(b, chunk) ==
  IF b.closed THEN b ELSE [b EXCEPT !.queue = <<chunk>> \o @]

\* entry.server.tsx:136-140   readable.on("data", chunk => controller.enqueue(..))
createReadableStreamFromReadable_onData(b, chunk) ==
  IF b.closed THEN b ELSE [b EXCEPT !.queue = Append(@, chunk)]

\* Faulty variant: closing discards the chunks still queued.
createReadableStreamFromReadable_onEnd_discards(b) == [b EXCEPT !.closed = TRUE, !.queue = <<>>]

\* entry.server.tsx:141-143   readable.on("end", () => controller.close())
createReadableStreamFromReadable_onEnd(b) == [b EXCEPT !.closed = TRUE]

\* ------------------------------------------------- request materializer
\* Most 'data' events the request's socket stream emits.
MaxBodyChunks == 2

Methods == {"GET", "HEAD", "POST", "DELETE"}

\* The native request before createRequest: its method, the listeners on
\* its stream (none), what the stream has emitted, and the Request's body
\* (none yet) with what a reader has taken from it.
NewReq(method) ==
  [ method |-> method, listeners |-> {}, emitted |-> 0, state |-> "open",
    hasBody |-> FALSE, stream |-> [queue |-> <<>>, closed |-> FALSE], read |-> <<>> ]

\* Faulty variant: only GET is exempt.
createRequest_hasBody_getOnly(method) == method # "GET"

\* server.ts:78   req.method !== "GET" && req.method !== "HEAD"
createRequest_hasBody(method) == method # "GET" /\ method # "HEAD"

\* node-adapter.ts:60
fromNodeRequest_hasBody(method) == method # "GET" /\ method # "HEAD"

\* server.ts:78-97: the ReadableStream's start() runs at construction and
\* attaches the two listeners.
createRequest_body(r) ==
  IF createRequest_hasBody(r.method)
  THEN [r EXCEPT !.hasBody = TRUE, !.listeners = @ \cup {"data", "end"}]
  ELSE r

\* node-adapter.ts:60-63 with createReadableStreamFromReadable, :95-110
fromNodeRequest_body(r) ==
  IF fromNodeRequest_hasBody(r.method)
  THEN [r EXCEPT !.hasBody = TRUE, !.listeners = @ \cup {"data", "end"}]
  ELSE r

\* server.ts:81-85   req.on("data", chunk => controller.enqueue(..))
createRequest_onData(b, chunk) ==
  IF b.closed THEN b ELSE [b EXCEPT !.queue = Append(@, chunk)]

\* server.ts:86-88   req.on("end", () => controller.close())
createRequest_onEnd(b) == [b EXCEPT !.closed = TRUE]

\* node-adapter.ts:100-104
fromNodeRequest_onData(b, chunk) ==
  IF b.closed THEN b ELSE [b EXCEPT !.queue = Append(@, chunk)]

\* node-adapter.ts:105-107
fromNodeRequest_onEnd(b) == [b EXCEPT !.closed = TRUE]

\* The stream emits an event: the listener the adapter attached for it
\* runs, if there is one.
Emit(ad, r, event, chunk) ==
  IF event \notin r.listeners THEN r.stream
  ELSE CASE event = "data" -> IF ad = "express" THEN createRequest_onData(r.stream, chunk)
                              ELSE fromNodeRequest_onData(r.stream, chunk)
         [] event = "end"  -> IF ad = "express" THEN createRequest_onEnd(r.stream)
                              ELSE fromNodeRequest_onEnd(r.stream)

\* ------------------------------------------------------ response flusher
NewSink ==
  [ statusCode |-> 0, statusMessage |-> NoValue, headers |-> <<>>,
    writes |-> <<>>, ended |-> 0, ops |-> <<>> ]

\* Header names in the order Headers iteration yields them (sorted by name).
HeaderNameOrder == <<"content-type", "set-cookie", "vary", "x-powered-by">>

RECURSIVE HeadersEntriesFrom(_, _)
HeadersEntriesFrom(h, k) ==
  IF k > Len(HeaderNameOrder) THEN <<>>
  ELSE SelectSeq(h, LAMBDA e : e[1] = HeaderNameOrder[k]) \o HeadersEntriesFrom(h, k + 1)

\* response.headers.entries() / iterating response.headers
HeadersEntries(h) == HeadersEntriesFrom(h, 1)

\* Cookie header values. Cookie2 carries a comma inside its Expires date;
\* FoldedCookies is what a Headers implementation that joins repeated
\* set-cookie values hands out for the two.
Cookie1 == "sid=1"

Cookie2 == "t=2; Expires=Wed, 21 Oct 2015 07:28:00 GMT"

FoldedCookies == "sid=1, t=2; Expires=Wed, 21 Oct 2015 07:28:00 GMT"

CookieStrings == {Cookie1, Cookie2, FoldedCookies}

\* The characters of a header value: the separators one by one, a run of
\* other characters as one element.
Chars(value) ==
  CASE value = Cookie1 -> <<"sid", "=", "1">>
    [] value = Cookie2 ->
         <<"t", "=", "2", ";", " ", "Expires", "=", "Wed", ",", " ",
           "21 Oct 2015 07:28:00 GMT">>
    [] value = FoldedCookies ->
         <<"sid", "=", "1", ",", " ",
           "t", "=", "2", ";", " ", "Expires", "=", "Wed", ",", " ",
           "21 Oct 2015 07:28:00 GMT">>
    [] OTHER -> <<value>>

\* The string with the given characters.
Text(chars) ==
  IF \E v \in CookieStrings : Chars(v) = chars
  THEN CHOOSE v \in CookieStrings : Chars(v) = chars
  ELSE IF Len(chars) = 1 THEN chars[1] ELSE "<other>"

RECURSIVE SkipWhitespace(_, _)
SkipWhitespace(cs, pos) ==
  IF pos <= Len(cs) /\ cs[pos] = " " THEN SkipWhitespace(cs, pos + 1) ELSE pos

RECURSIVE SkipNotSpecial(_, _)
SkipNotSpecial(cs, pos) ==
  IF pos <= Len(cs) /\ cs[pos] \notin {"=", ";", ","}
  THEN SkipNotSpecial(cs, pos + 1) ELSE pos

RECURSIVE SplitFrom(_, _, _, _)
\* splitCookiesString's scan: a ',' separates two cookies when the text
\* after it runs into '=' before any ';' or ','.
SplitFrom(cs, pos, start, acc) ==
  LET p == SkipWhitespace(cs, pos)
  IN IF p > Len(cs) THEN Append(acc, SubSeq(cs, start, Len(cs)))
     ELSE IF cs[p] = ","
          THEN LET nextStart == SkipWhitespace(cs, p + 1)
                   q == SkipNotSpecial(cs, nextStart)
               IN IF q <= Len(cs) /\ cs[q] = "="
                  THEN SplitFrom(cs, nextStart, nextStart,
                                 Append(acc, SubSeq(cs, start, p - 1)))
                  ELSE SplitFrom(cs, p + 1, start, acc)
          ELSE SplitFrom(cs, p + 1, start, acc)

\* splitCookiesString(value) of set-cookie-parser, as node-adapter.ts:78
\* calls it.
splitCookiesString(value) ==
  LET pieces == SplitFrom(Chars(value), 1, 1, <<>>)
  IN [i \in 1..Len(pieces) |-> Text(pieces[i])]

RECURSIVE AppendAll(_, _)
\* server.ts:129-131   res.append(key, value) for every entry
AppendAll(sinkHeaders, entries) ==
  IF entries = <<>> THEN sinkHeaders
  ELSE AppendAll(Append(sinkHeaders, Head(entries)), Tail(entries))

\* ServerResponse.setHeader(name, values): replaces what the name held.
SetHeader(sinkHeaders, name, values) ==
  SelectSeq(sinkHeaders, LAMBDA e : e[1] # name)
    \o [i \in 1..Len(values) |-> <<name, values[i]>>]

RECURSIVE SetAll_each(_, _, _)
\* Faulty variant: setHeader("set-cookie", ..) is called for each entry.
SetAll_each(sinkHeaders, entries, cookiesStrings) ==
  IF entries = <<>> THEN sinkHeaders
  ELSE LET e == Head(entries)
       IN IF e[1] = "set-cookie"
          THEN SetAll_each(SetHeader(sinkHeaders, "set-cookie", splitCookiesString(e[2])),
                           Tail(entries), cookiesStrings)
          ELSE SetAll_each(SetHeader(sinkHeaders, e[1], <<e[2]>>), Tail(entries), cookiesStrings)

RECURSIVE SetAll(_, _, _)
\* node-adapter.ts:74-84
SetAll(sinkHeaders, entries, cookiesStrings) ==
  IF entries = <<>>
  THEN IF Len(cookiesStrings) > 0
       THEN SetHeader(sinkHeaders, "set-cookie", cookiesStrings)
       ELSE sinkHeaders
  ELSE LET e == Head(entries)
       IN IF e[1] = "set-cookie"
          THEN SetAll(sinkHeaders, Tail(entries), cookiesStrings \o splitCookiesString(e[2]))
          ELSE SetAll(SetHeader(sinkHeaders, e[1], <<e[2]>>), Tail(entries), cookiesStrings)

HeaderOps(n) == [i \in 1..n |-> "header"]

\* node-adapter.ts:76-84: setHeader runs once per entry that is not a
\* cookie, and once for all cookies together.
SetHeaderCalls(entries) ==
  Len(SelectSeq(entries, LAMBDA e : e[1] # "set-cookie"))
    + (IF \E i \in 1..Len(entries) : entries[i][1] = "set-cookie" THEN 1 ELSE 0)

IsEventStream(h) == HeadersGet(h, "content-type") = "text/event-stream"

\* Faulty variant: the header loop is skipped.
sendResponse_head_noHeaders(sk, response) ==
  [sk EXCEPT !.statusMessage = response.statusText,
             !.statusCode = response.status,
             !.ops = @ \o <<"statusMessage", "status">>
                       \o (IF IsEventStream(response.headers)
                           THEN <<"flushHeaders">> ELSE <<>>)]

\* server.ts:126-135 (up to the first await of the body loop)
sendResponse_head(sk, response) ==
  [sk EXCEPT !.statusMessage = response.statusText,
             !.statusCode = response.status,
             !.headers = AppendAll(@, HeadersEntries(response.headers)),
             !.ops = @ \o <<"statusMessage", "status">>
                       \o HeaderOps(Len(HeadersEntries(response.headers)))
                       \o (IF IsEventStream(response.headers)
                           THEN <<"flushHeaders">> ELSE <<>>)]

\* server.ts:139   res.write(chunk)
sendResponse_write(sk, chunk) ==
  [sk EXCEPT !.writes = Append(@, chunk), !.ops = Append(@, "write")]

\* server.ts:143   res.end()
sendResponse_end(sk) == [sk EXCEPT !.ended = @ + 1, !.ops = Append(@, "end")]

\* node-adapter.ts:71-84
toNodeRequest_head(sk, response) ==
  [sk EXCEPT !.statusCode = response.status,
             !.statusMessage = response.statusText,
             !.headers = SetAll(@, HeadersEntries(response.headers), <<>>),
             !.ops = @ \o <<"status", "statusMessage">>
                       \o HeaderOps(SetHeaderCalls(HeadersEntries(response.headers)))]

\* node-adapter.ts:88   res.write(chunk)
toNodeRequest_write(sk, chunk) ==
  [sk EXCEPT !.writes = Append(@, chunk), !.ops = Append(@, "write")]

\* node-adapter.ts:92   res.end()
toNodeRequest_end(sk) == [sk EXCEPT !.ended = @ + 1, !.ops = Append(@, "end")]

\* What `await handleRequest(request, loadContext)` yields to the adapter:
\* the entry module's promise passed through (resolved Response, or the
\* rejection thrown at the await).
handleRequestResult(p) ==
  CASE p.state = "resolved" -> [kind |-> "response", value |-> p.value]
    [] p.state = "rejected" -> [kind |-> "throw", value |-> p.value]
    [] OTHER                -> [kind |-> "pending", value |-> NoValue]

\* ------------------------------------------------------------------- Init
Init ==
  /\ adapter \in Adapters
  /\ userAgent \in UserAgents
  /\ hpc = "init"
  /\ token = NoToken
  /\ sinkEvents = <<>>
  /\ sink = NewSink
  /\ nextError = NoValue
  /\ strategy = "none"
  /\ registered = {}
  /\ engine = "idle"
  /\ \E in \in CallerInputs :
       /\ callerStatus = in.status
       /\ closure = NewClosure(in.status, in.headers)
  /\ calls = <<>>
  /\ emitted = 0
  /\ srcEnded = FALSE
  /\ body = NewBody
  /\ timers = <<>>
  /\ now = 0
  /\ abortCalls = <<>>
  /\ midStreamClose = FALSE
  /\ req = NewReq("GET")

\* ----------------------------------------------------- adapter's handler
\* server.ts:35 with createRequest, server.ts:49-100
Express_CreateRequest ==
  /\ adapter = "express" /\ hpc = "init"
  /\ token' = NewToken
  /\ req' = createRequest_body(req)
  /\ hpc' = "created"
  /\ UNCHANGED <<adapter, userAgent, callerStatus, sinkEvents, sink, nextError,
                 strategy, registered, engine, closure, calls, emitted, srcEnded,
                 body, timers, now, abortCalls,
                 midStreamClose>>

\* node-adapter.ts:33-66
Vite_FromNodeRequest ==
  /\ adapter = "vite" /\ hpc = "init"
  /\ token' = NewToken
  /\ req' = fromNodeRequest_body(req)
  /\ hpc' = "created"
  /\ UNCHANGED <<adapter, userAgent, callerStatus, sinkEvents, sink, nextError,
                 strategy, registered, engine, closure, calls, emitted, srcEnded,
                 body, timers, now, abortCalls,
                 midStreamClose>>

\* entry.server.tsx:10-29 with the executor of the chosen strategy
\* (:37-78 or :87-128): callbacks registered, render started, timer armed.
handleRequest ==
  /\ hpc = "created"
  /\ LET s == handleRequest_strategy(userAgent)
     IN /\ strategy' = s
        /\ registered' = IF s = "bot" THEN handleBotRequest_callbacks
                         ELSE handleBrowserRequest_callbacks
        /\ timers' = Append(timers, SetTimeout(IF s = "bot" THEN handleBotRequest_timer
                                               ELSE handleBrowserRequest_timer, now))
  /\ engine' = "rendering"
  /\ hpc' = "rendering"
  /\ UNCHANGED <<adapter, userAgent, callerStatus, token, sinkEvents, sink,
                 nextError, closure, calls, emitted, srcEnded, body, now,
                 abortCalls,
                 midStreamClose, req>>

\* server.ts:40 with sendResponse up to its first await, server.ts:126-135
Express_SendResponseHead ==
  /\ adapter = "express" /\ hpc = "rendering"
  /\ handleRequestResult(closure.promise).kind = "response"
  /\ sink' = sendResponse_head(sink, handleRequestResult(closure.promise).value)
  /\ hpc' = "flushing"
  /\ UNCHANGED <<adapter, userAgent, callerStatus, token, sinkEvents, nextError,
                 strategy, registered, engine, closure, calls, emitted, srcEnded,
                 body, timers, now, abortCalls,
                 midStreamClose, req>>

\* server.ts:137-140, one turn of the for await loop over a body
Express_SendResponseWrite ==
  /\ adapter = "express" /\ hpc = "flushing"
  /\ handleRequestResult(closure.promise).value.hasBody
  /\ body.queue # <<>>
  /\ sink' = sendResponse_write(sink, Head(body.queue))
  /\ body' = [body EXCEPT !.queue = Tail(@)]
  /\ UNCHANGED <<adapter, userAgent, callerStatus, hpc, token, sinkEvents,
                 nextError, strategy, registered, engine, closure, calls, emitted,
                 srcEnded, timers, now, abortCalls,
                 midStreamClose, req>>

\* server.ts:143, once the body is exhausted or when there is none
Express_SendResponseEnd ==
  /\ adapter = "express" /\ hpc = "flushing"
  /\ \/ ~handleRequestResult(closure.promise).value.hasBody
     \/ body.queue = <<>> /\ body.closed
  /\ sink' = sendResponse_end(sink)
  /\ hpc' = "done"
  /\ UNCHANGED <<adapter, userAgent, callerStatus, token, sinkEvents, nextError,
                 strategy, registered, engine, closure, calls, emitted, srcEnded,
                 body, timers, now, abortCalls,
                 midStreamClose, req>>

\* server.ts:41-45   catch (error) { next(error) }
Express_Catch ==
  /\ adapter = "express" /\ hpc = "rendering"
  /\ handleRequestResult(closure.promise).kind = "throw"
  /\ nextError' = handleRequestResult(closure.promise).value
  /\ hpc' = "nexted"
  /\ UNCHANGED <<adapter, userAgent, callerStatus, token, sinkEvents, sink,
                 strategy, registered, engine, closure, calls, emitted, srcEnded,
                 body, timers, now, abortCalls,
                 midStreamClose, req>>

\* node-adapter.ts:70-84
Vite_ToNodeRequestHead ==
  /\ adapter = "vite" /\ hpc = "rendering"
  /\ handleRequestResult(closure.promise).kind = "response"
  /\ sink' = toNodeRequest_head(sink, handleRequestResult(closure.promise).value)
  /\ hpc' = "flushing"
  /\ UNCHANGED <<adapter, userAgent, callerStatus, token, sinkEvents, nextError,
                 strategy, registered, engine, closure, calls, emitted, srcEnded,
                 body, timers, now, abortCalls,
                 midStreamClose, req>>

\* node-adapter.ts:86-89, one turn of the for await loop over a body
Vite_ToNodeRequestWrite ==
  /\ adapter = "vite" /\ hpc = "flushing"
  /\ handleRequestResult(closure.promise).value.hasBody
  /\ body.queue # <<>>
  /\ sink' = toNodeRequest_write(sink, Head(body.queue))
  /\ body' = [body EXCEPT !.queue = Tail(@)]
  /\ UNCHANGED <<adapter, userAgent, callerStatus, hpc, token, sinkEvents,
                 nextError, strategy, registered, engine, closure, calls, emitted,
                 srcEnded, timers, now, abortCalls,
                 midStreamClose, req>>

\* node-adapter.ts:92, once the body is exhausted or when there is none
Vite_ToNodeRequestEnd ==
  /\ adapter = "vite" /\ hpc = "flushing"
  /\ \/ ~handleRequestResult(closure.promise).value.hasBody
     \/ body.queue = <<>> /\ body.closed
  /\ sink' = toNodeRequest_end(sink)
  /\ hpc' = "done"
  /\ UNCHANGED <<adapter, userAgent, callerStatus, token, sinkEvents, nextError,
                 strategy, registered, engine, closure, calls, emitted, srcEnded,
                 body, timers, now, abortCalls,
                 midStreamClose, req>>

\* ------------------------------------------ response sink's event emitter
\* The sink emits 'close' at any time after the listeners are attached, and
\* any number of times; it emits 'finish' only after a response was ended on
\* it. Each emitted event runs the adapter's listener for it.
\* The sink emits 'finish' (a response was ended on it, by the flusher or
\* by the host's error handler); the listener of server.ts:75 runs.
Express_ResFinish ==
  /\ adapter = "express" /\ hpc \in {"done", "nexted"}
  /\ Len(sinkEvents) < MaxSinkEvents
  /\ sinkEvents' = Append(sinkEvents, "finish")
  /\ token' = createRequest_onFinish(token)
  /\ UNCHANGED <<adapter, userAgent, callerStatus, hpc, sink, nextError, strategy,
                 registered, engine, closure, calls, emitted, srcEnded, body,
                 timers, now, abortCalls,
                 midStreamClose, req>>

\* The sink emits 'close'; the listener of server.ts:76 runs.
Express_ResClose ==
  /\ adapter = "express" /\ hpc # "init"
  /\ Len(sinkEvents) < MaxSinkEvents
  /\ sinkEvents' = Append(sinkEvents, "close")
  /\ token' = createRequest_onClose(token)
  /\ midStreamClose' = (midStreamClose \/ hpc = "flushing")
  /\ UNCHANGED <<adapter, userAgent, callerStatus, hpc, sink, nextError, strategy,
                 registered, engine, closure, calls, emitted, srcEnded, body,
                 timers, now, abortCalls, req>>

\* The sink emits 'finish' (a response was ended on it, by the flusher or
\* by the host's error handler); the listener of node-adapter.ts:57 runs.
Vite_ResFinish ==
  /\ adapter = "vite" /\ hpc \in {"done", "nexted"}
  /\ Len(sinkEvents) < MaxSinkEvents
  /\ sinkEvents' = Append(sinkEvents, "finish")
  /\ token' = fromNodeRequest_onFinish(token)
  /\ UNCHANGED <<adapter, userAgent, callerStatus, hpc, sink, nextError, strategy,
                 registered, engine, closure, calls, emitted, srcEnded, body,
                 timers, now, abortCalls,
                 midStreamClose, req>>

\* The sink emits 'close'; the listener of node-adapter.ts:58 runs.
Vite_ResClose ==
  /\ adapter = "vite" /\ hpc # "init"
  /\ Len(sinkEvents) < MaxSinkEvents
  /\ sinkEvents' = Append(sinkEvents, "close")
  /\ token' = fromNodeRequest_onClose(token)
  /\ midStreamClose' = (midStreamClose \/ hpc = "flushing")
  /\ UNCHANGED <<adapter, userAgent, callerStatus, hpc, sink, nextError, strategy,
                 registered, engine, closure, calls, emitted, srcEnded, body,
                 timers, now, abortCalls, req>>

\* ---------------------------------------------------------- render engine
\* Number of onError reports the engine made on its own.
OwnErrors ==
  Cardinality({i \in 1..Len(calls) :
                 /\ calls[i][1] = "onError" /\ calls[i][2] # AbortErr
                 /\ (i = Len(calls) \/ calls[i + 1] # <<"onShellError", calls[i][2]>>)})

\* The shell completes: onShellReady, if the caller gave one.
Engine_ShellReady ==
  /\ engine = "rendering"
  /\ engine' = "shell"
  /\ closure' = Invoke(strategy, registered, "onShellReady", NoValue, closure)
  /\ calls' = calls \o Called(registered, "onShellReady", NoValue)
  /\ UNCHANGED <<adapter, userAgent, callerStatus, hpc, token, sinkEvents, sink,
                 nextError, strategy, registered, emitted, srcEnded, body, timers,
                 now, abortCalls,
                 midStreamClose, req>>

\* All pending content completes: onAllReady, if the caller gave one.
Engine_AllReady ==
  /\ engine = "shell"
  /\ engine' = "allReady"
  /\ closure' = Invoke(strategy, registered, "onAllReady", NoValue, closure)
  /\ calls' = calls \o Called(registered, "onAllReady", NoValue)
  /\ UNCHANGED <<adapter, userAgent, callerStatus, hpc, token, sinkEvents, sink,
                 nextError, strategy, registered, emitted, srcEnded, body, timers,
                 now, abortCalls,
                 midStreamClose, req>>

\* A recoverable error, inside a boundary while rendering or while the
\* rendered content is being written out: onError(error).
Engine_Error ==
  /\ engine \in {"rendering", "shell", "allReady"}
  /\ ~srcEnded
  /\ OwnErrors < MaxErrors /\ OwnErrors < Len(ErrSeq)
  /\ LET error == ErrSeq[OwnErrors + 1]
     IN /\ closure' = Invoke(strategy, registered, "onError", error, closure)
        /\ calls' = calls \o Called(registered, "onError", error)
  /\ UNCHANGED <<adapter, userAgent, callerStatus, hpc, token, sinkEvents, sink,
                 nextError, strategy, registered, engine, emitted, srcEnded, body,
                 timers, now, abortCalls,
                 midStreamClose, req>>

\* The shell fails: the error is reported through onError, then onShellError.
Engine_ShellError ==
  /\ engine = "rendering"
  /\ engine' = "fatal"
  /\ \E error \in Errs :
       /\ closure' = Invoke(strategy, registered, "onShellError", error,
                            Invoke(strategy, registered, "onError", error, closure))
       /\ calls' = calls \o Called(registered, "onError", error)
                         \o Called(registered, "onShellError", error)
  /\ UNCHANGED <<adapter, userAgent, callerStatus, hpc, token, sinkEvents, sink,
                 nextError, strategy, registered, emitted, srcEnded, body, timers,
                 now, abortCalls,
                 midStreamClose, req>>

\* After pipe(passthru) the engine writes a chunk; the PassThrough emits
\* 'data' and the listener of entry.server.tsx:136 enqueues it.
Engine_Write ==
  /\ closure.pipeCalled
  /\ engine \in {"shell", "allReady"}
  /\ ~srcEnded
  /\ emitted < MaxChunks
  /\ emitted' = emitted + 1
  /\ body' = createReadableStreamFromReadable_onData(body, emitted + 1)
  /\ UNCHANGED <<adapter, userAgent, callerStatus, hpc, token, sinkEvents, sink,
                 nextError, strategy, registered, engine, closure, calls, srcEnded,
                 timers, now, abortCalls,
                 midStreamClose, req>>

\* With nothing left to render the engine ends its destination; the
\* PassThrough emits 'end' and the listener of entry.server.tsx:141 runs.
Engine_End ==
  /\ closure.pipeCalled
  /\ engine = "allReady"
  /\ ~srcEnded
  /\ srcEnded' = TRUE
  /\ body' = createReadableStreamFromReadable_onEnd(body)
  /\ UNCHANGED <<adapter, userAgent, callerStatus, hpc, token, sinkEvents, sink,
                 nextError, strategy, registered, engine, closure, calls, emitted,
                 timers, now, abortCalls,
                 midStreamClose, req>>

\* The engine's abort(): before the shell it is a shell failure; after the
\* shell the pending boundaries are reported through onError and the render
\* completes; once everything is rendered (or failed) it does nothing.
AbortStage(e) ==
  CASE e = "rendering" -> "fatal"
    [] e = "shell"     -> "allReady"
    [] OTHER           -> e

AbortClosure(e, strat, cbs, c) ==
  CASE e = "rendering" -> Invoke(strat, cbs, "onShellError", AbortErr,
                                 Invoke(strat, cbs, "onError", AbortErr, c))
    [] e = "shell"     -> Invoke(strat, cbs, "onAllReady", NoValue,
                                 Invoke(strat, cbs, "onError", AbortErr, c))
    [] OTHER           -> c

AbortCalled(e, cbs) ==
  CASE e = "rendering" -> Called(cbs, "onError", AbortErr) \o Called(cbs, "onShellError", AbortErr)
    [] e = "shell"     -> Called(cbs, "onError", AbortErr) \o Called(cbs, "onAllReady", NoValue)
    [] OTHER           -> <<>>

\* ------------------------------------------------------------ timer queue
\* A timer fires no earlier than its due time and runs its callback, abort.
Timer_Fire ==
  \E i \in 1..Len(timers) :
    /\ ~timers[i].fired
    /\ now >= timers[i].armedAt + timers[i].delay
    /\ timers' = [timers EXCEPT ![i].fired = TRUE]
    /\ abortCalls' = Append(abortCalls, "timer")
    /\ engine' = AbortStage(engine)
    /\ closure' = AbortClosure(engine, strategy, registered, closure)
    /\ calls' = calls \o AbortCalled(engine, registered)
    /\ UNCHANGED <<adapter, userAgent, callerStatus, hpc, token, sinkEvents, sink,
                   nextError, strategy, registered, emitted, srcEnded, body, now,
                   midStreamClose, req>>

\* Time passes. The clock is followed for one step before the entry module
\* runs, and then for as long as a timer is waiting for its due time.
Tick ==
  /\ \/ strategy = "none" /\ now = 0
     \/ \E i \in 1..Len(timers) : ~timers[i].fired /\ now < timers[i].armedAt + timers[i].delay
  /\ now' = now + TimeStep
  /\ UNCHANGED <<adapter, userAgent, callerStatus, hpc, token, sinkEvents, sink,
                 nextError, strategy, registered, engine, closure, calls, emitted,
                 srcEnded, body, timers, abortCalls,
                 midStreamClose, req>>

Next ==
  \/ Express_CreateRequest
  \/ Vite_FromNodeRequest
  \/ handleRequest
  \/ Express_SendResponseHead
  \/ Express_SendResponseWrite
  \/ Express_SendResponseEnd
  \/ Express_Catch
  \/ Vite_ToNodeRequestHead
  \/ Vite_ToNodeRequestWrite
  \/ Vite_ToNodeRequestEnd
  \/ Express_ResFinish
  \/ Express_ResClose
  \/ Vite_ResFinish
  \/ Vite_ResClose
  \/ Engine_ShellReady
  \/ Engine_AllReady
  \/ Engine_Error
  \/ Engine_ShellError
  \/ Engine_Write
  \/ Engine_End
  \/ Timer_Fire
  \/ Tick

Spec == Init /\ [][Next]_vars

\* --------------------------------------------- the flusher on any Response
\* The flusher takes whatever Response the request handler returned, not
\* only the entry module's: any status line, any headers, with or without a
\* body, onto a sink that middleware may have put headers on already.
FlushStatuses ==
  { [status |-> 200, statusText |-> ""], [status |-> 404, statusText |-> "Not Found"] }

FlushHeaders ==
  { << <<"content-type", "text/html">> >>,
    << <<"content-type", "text/event-stream">> >>,
    << <<"set-cookie", Cookie1>>, <<"set-cookie", Cookie2>> >>,
    << <<"set-cookie", Cookie2>>, <<"set-cookie", Cookie1>>,
       <<"content-type", "text/html">> >>,
    << <<"set-cookie", FoldedCookies>> >>,
    << <<"vary", "Cookie">>, <<"content-type", "text/html">> >> }

SinkPresets == { <<>>, << <<"vary", "Accept-Encoding">> >> }

FlushResponses ==
  { [status |-> st.status, statusText |-> st.statusText, headers |-> hs, hasBody |-> b] :
      st \in FlushStatuses, hs \in FlushHeaders, b \in BOOLEAN }

\* The handler is at `await sendResponse(res, response)` (server.ts:40), or
\* at toNodeRequest(res, response), with a Response in hand.
FlushInit ==
  /\ adapter \in Adapters
  /\ userAgent = NoUserAgent
  /\ hpc = "rendering"
  /\ token = NewToken
  /\ sinkEvents = <<>>
  /\ \E preset \in SinkPresets : sink = [NewSink EXCEPT !.headers = preset]
  /\ nextError = NoValue
  /\ strategy = "none"
  /\ registered = {}
  /\ engine = "idle"
  /\ \E response \in FlushResponses :
       /\ callerStatus = response.status
       /\ closure = [NewClosure(response.status, response.headers)
                       EXCEPT !.promise = Resolve(@, response)]
  /\ calls = <<>>
  /\ emitted = 0
  /\ srcEnded = FALSE
  /\ body = NewBody
  /\ timers = <<>>
  /\ now = 0
  /\ abortCalls = <<>>
  /\ midStreamClose = FALSE
  /\ req = NewReq("GET")

\* The Readable under the Response's body emits 'data'; the listener of
\* entry.server.tsx:136 enqueues the chunk.
Readable_Data ==
  /\ handleRequestResult(closure.promise).kind = "response"
  /\ handleRequestResult(closure.promise).value.hasBody
  /\ ~srcEnded
  /\ emitted < MaxChunks
  /\ emitted' = emitted + 1
  /\ body' = createReadableStreamFromReadable_onData(body, emitted + 1)
  /\ UNCHANGED <<adapter, userAgent, callerStatus, hpc, token, sinkEvents, sink,
                 nextError, strategy, registered, engine, closure, calls, srcEnded,
                 timers, now, abortCalls,
                 midStreamClose, req>>

\* The Readable emits 'end'; the listener of entry.server.tsx:141 runs.
Readable_End ==
  /\ handleRequestResult(closure.promise).kind = "response"
  /\ handleRequestResult(closure.promise).value.hasBody
  /\ ~srcEnded
  /\ srcEnded' = TRUE
  /\ body' = createReadableStreamFromReadable_onEnd(body)
  /\ UNCHANGED <<adapter, userAgent, callerStatus, hpc, token, sinkEvents, sink,
                 nextError, strategy, registered, engine, closure, calls, emitted,
                 timers, now, abortCalls,
                 midStreamClose, req>>

FlushNext ==
  \/ Express_SendResponseHead
  \/ Express_SendResponseWrite
  \/ Express_SendResponseEnd
  \/ Vite_ToNodeRequestHead
  \/ Vite_ToNodeRequestWrite
  \/ Vite_ToNodeRequestEnd
  \/ Readable_Data
  \/ Readable_End

FlushSpec == FlushInit /\ [][FlushNext]_vars

\* ------------------------------------------- the request and its body
\* A request of any method arrives and is handed to the adapter, which
\* materializes the Request; from then on the client sends the payload and
\* completes it, or goes away early.
ReqInit ==
  /\ adapter \in Adapters
  /\ userAgent = "Mozilla"
  /\ hpc = "init"
  /\ token = NoToken
  /\ sinkEvents = <<>>
  /\ sink = NewSink
  /\ nextError = NoValue
  /\ strategy = "none"
  /\ registered = {}
  /\ engine = "idle"
  /\ callerStatus = 200
  /\ closure = NewClosure(200, <<>>)
  /\ calls = <<>>
  /\ emitted = 0
  /\ srcEnded = FALSE
  /\ body = NewBody
  /\ timers = <<>>
  /\ now = 0
  /\ abortCalls = <<>>
  /\ midStreamClose = FALSE
  /\ \E method \in Methods : req = NewReq(method)

\* The socket stream flows once it has a 'data' listener and emits 'data'.
Req_Data ==
  /\ "data" \in req.listeners
  /\ req.state = "open"
  /\ req.emitted < MaxBodyChunks
  /\ req' = [req EXCEPT !.emitted = @ + 1,
                        !.stream = Emit(adapter, req, "data", req.emitted + 1)]
  /\ UNCHANGED <<adapter, userAgent, callerStatus, hpc, token, sinkEvents, sink,
                 nextError, strategy, registered, engine, closure, calls, emitted,
                 srcEnded, body, timers, now, abortCalls, midStreamClose>>

\* The payload is complete: the flowing stream emits 'end'.
Req_End ==
  /\ "data" \in req.listeners
  /\ req.state = "open"
  /\ req' = [req EXCEPT !.state = "ended", !.stream = Emit(adapter, req, "end", NoValue)]
  /\ UNCHANGED <<adapter, userAgent, callerStatus, hpc, token, sinkEvents, sink,
                 nextError, strategy, registered, engine, closure, calls, emitted,
                 srcEnded, body, timers, now, abortCalls, midStreamClose>>

\* The socket fails: the stream emits 'error' and will never emit 'end'.
Req_Error ==
  /\ hpc # "init"
  /\ req.state = "open"
  /\ req' = [req EXCEPT !.state = "errored", !.stream = Emit(adapter, req, "error", NoValue)]
  /\ UNCHANGED <<adapter, userAgent, callerStatus, hpc, token, sinkEvents, sink,
                 nextError, strategy, registered, engine, closure, calls, emitted,
                 srcEnded, body, timers, now, abortCalls, midStreamClose>>

\* The client aborts the upload, or the failed socket is torn down: the
\* stream emits 'close' without having emitted 'end'.
Req_Close ==
  /\ hpc # "init"
  /\ req.state \in {"open", "errored"}
  /\ req' = [req EXCEPT !.state = "closed", !.stream = Emit(adapter, req, "close", NoValue)]
  /\ UNCHANGED <<adapter, userAgent, callerStatus, hpc, token, sinkEvents, sink,
                 nextError, strategy, registered, engine, closure, calls, emitted,
                 srcEnded, body, timers, now, abortCalls, midStreamClose>>

\* Whoever holds the Request reads the next chunk of its body.
Req_Read ==
  /\ req.hasBody
  /\ req.stream.queue # <<>>
  /\ req' = [req EXCEPT !.read = Append(@, Head(req.stream.queue)),
                        !.stream.queue = Tail(@)]
  /\ UNCHANGED <<adapter, userAgent, callerStatus, hpc, token, sinkEvents, sink,
                 nextError, strategy, registered, engine, closure, calls, emitted,
                 srcEnded, body, timers, now, abortCalls, midStreamClose>>

ReqNext ==
  \/ Express_CreateRequest
  \/ Vite_FromNodeRequest
  \/ Req_Data
  \/ Req_End
  \/ Req_Error
  \/ Req_Close
  \/ Req_Read

ReqSpec == ReqInit /\ [][ReqNext]_vars

\* The event loop runs due timers and time does not stop.
FairSpec == Spec /\ WF_vars(Tick) /\ WF_vars(Timer_Fire)

TypeOK ==
  /\ hpc \in {"init", "created", "rendering", "flushing", "done", "nexted"}
  /\ engine \in {"idle", "rendering", "shell", "allReady", "fatal"}
  /\ strategy \in {"none", "bot", "browser"}
  /\ closure.promise.state \in {"pending", "resolved", "rejected"}
  /\ emitted \in 0..MaxChunks
  /\ Len(timers) <= 1

\* ================================================================ claims
\* 'finish' was delivered before any 'close'.
FinishBeforeClose ==
  \E i \in 1..Len(sinkEvents) :
    sinkEvents[i] = "finish" /\ \A j \in 1..(i-1) : sinkEvents[j] # "close"

\* C1: when the sink's 'finish' is delivered before its 'close', the
\* request's abort signal is never aborted, however many 'close' follow.
C1_FinishedNeverAborts == FinishBeforeClose => ~SignalAborted

\* C1 witness: 'finish', then 'close', and the signal is still not aborted.
C1_Witness ==
  /\ Len(sinkEvents) >= 2
  /\ sinkEvents[1] = "finish" /\ sinkEvents[2] = "close"
  /\ ~SignalAborted

\* The sink delivers 'close' in this step.
CloseDelivered == sinkEvents' = Append(sinkEvents, "close")

\* C2: a 'close' delivered while the token is active aborts the signal; an
\* aborted signal stays aborted; a token that reached finished or aborted
\* keeps that first terminal value through every later 'finish' or 'close'.
C2_CancellationIdempotent ==
  [][ /\ (TokenState = "active" /\ CloseDelivered) => TokenState' = "aborted"
      /\ SignalAborted => SignalAborted'
      /\ TokenState \in {"finished", "aborted"} => TokenState' = TokenState ]_vars

\* C2 witness: 'close' came first, a 'finish' followed, the token is aborted.
C2_Witness ==
  /\ Len(sinkEvents) >= 2
  /\ sinkEvents[1] = "close" /\ sinkEvents[2] = "finish"
  /\ TokenState = "aborted"

\* C3: once the head of the response is on the sink and the sink has
\* reported 'close' before the body is exhausted, the flusher makes no
\* further write attempt against the sink.
C3_NoWriteAfterClose ==
  [][ (hpc = "flushing" /\ midStreamClose) => sink'.writes = sink.writes ]_vars

\* A render is in progress: the engine still has something to abort.
RenderInProgress == engine \in {"rendering", "shell"}

\* C4: when the token goes from active to aborted (the sink's 'close' before
\* 'finish') while the render is in progress and the response is not fully
\* flushed, the render engine's abort is invoked by that disconnect; the
\* abort signal runs its listeners inside controller.abort(), so the
\* invocation belongs to the step that delivers 'close'.
C4_DisconnectAbortsRender ==
  [][ ( /\ TokenState = "active" /\ TokenState' = "aborted"
        /\ RenderInProgress
        /\ hpc \in {"rendering", "flushing"} )
        => Len(abortCalls') > Len(abortCalls) ]_vars

\* C5: each strategy arms exactly one deadline timer, for abort, when it is
\* invoked; the render engine's abort is never invoked before ABORT_DELAY
\* has passed since then, and it is eventually invoked, so a render that
\* never reaches a ready callback does not stay un-aborted forever.
C5_DeadlineEnforcement ==
  /\ [](strategy = "none" => timers = <<>>)
  /\ [](strategy # "none" => Len(timers) = 1 /\ timers[1].callback = "abort")
  /\ [](abortCalls # <<>> =>
          /\ abortCalls = <<"timer">>
          /\ now >= timers[1].armedAt + ABORT_DELAY)
  /\ [](strategy # "none" => <>(abortCalls # <<>>))

\* The engine invoked the named callback.
WasCalled(name) == \E i \in 1..Len(calls) : calls[i][1] = name

\* C5 witness: no ready callback was ever called and the deadline's abort
\* failed the render.
C5_Witness ==
  /\ abortCalls = <<"timer">>
  /\ ~WasCalled("onShellReady") /\ ~WasCalled("onAllReady")
  /\ engine = "fatal"
  /\ closure.promise = [state |-> "rejected", value |-> AbortErr]

\* C6: exactly one strategy is exercised, the one the bot classification of
\* the user-agent header selects; the other strategy's ready callback is
\* neither registered nor invoked, and only the chosen strategy's ready
\* callback resolves the Response.
C6_StrategyExclusive ==
  strategy # "none" =>
    /\ strategy = (IF userAgent \in BotAgents THEN "bot" ELSE "browser")
    /\ strategy = "bot" =>
         /\ "onAllReady" \in registered /\ "onShellReady" \notin registered
         /\ ~WasCalled("onShellReady")
         /\ closure.promise.state = "resolved" => WasCalled("onAllReady")
    /\ strategy = "browser" =>
         /\ "onShellReady" \in registered /\ "onAllReady" \notin registered
         /\ ~WasCalled("onAllReady")
         /\ closure.promise.state = "resolved" => WasCalled("onShellReady")

\* C6 witness: a bot request whose render passed the shell stage and all
\* content, with onAllReady the only ready callback invoked.
C6_Witness ==
  /\ userAgent = "Googlebot" /\ strategy = "bot"
  /\ engine = "allReady"
  /\ WasCalled("onAllReady") /\ ~WasCalled("onShellReady")
  /\ closure.promise.state = "resolved"

\* C7: after onShellError(err) (which only precedes ready callbacks) the
\* promise is rejected with err, no Response is resolved, pipe is never
\* called and the flusher puts no status, header or body on the sink; what
\* express's next() receives is err.
C7_PreShellFailure ==
  \A e \in Errs \cup {AbortErr} :
    (\E i \in 1..Len(calls) : calls[i] = <<"onShellError", e>>) =>
      /\ closure.promise = [state |-> "rejected", value |-> e]
      /\ ~closure.pipeCalled
      /\ sink = NewSink
      /\ hpc \notin {"flushing", "done"}
      /\ nextError \in {NoValue, e}

\* C7 witness: onShellError("e2") was handed to express's next().
C7_Witness ==
  /\ Len(calls) > 0 /\ Last(calls) = <<"onShellError", "e2">>
  /\ hpc = "nexted" /\ nextError = "e2"
  /\ sink = NewSink

\* The engine invokes onError in this step.
OnErrorInvoked == Len(calls') > Len(calls) /\ calls'[Len(calls) + 1][1] = "onError"

\* C8: an onError(err) after the Response was resolved leaves the resolved
\* Response, the response headers and the sink as they are, does not reject,
\* logs err, and sets the local responseStatusCode to 500.
C8_PostShellFailure ==
  [][ (closure.promise.state = "resolved" /\ OnErrorInvoked) =>
        /\ closure'.promise = closure.promise
        /\ closure'.responseHeaders = closure.responseHeaders
        /\ sink' = sink
        /\ closure'.log = Append(closure.log, calls'[Len(calls) + 1][2])
        /\ closure'.responseStatusCode = 500 ]_vars

\* C8 witness: status 200 is on the sink and in the resolved Response while
\* the local status is 500 and the error is in the log.
C8_Witness ==
  /\ closure.promise.state = "resolved"
  /\ closure.promise.value.status = 200
  /\ sink.statusCode = 200
  /\ closure.responseStatusCode = 500
  /\ closure.log = <<"e1">>

\* An onError call preceded the first call of the named ready callback.
ErrorBefore(name) ==
  \E i, j \in 1..Len(calls) :
    /\ i < j /\ calls[i][1] = "onError" /\ calls[j][1] = name
    /\ \A k \in 1..(j-1) : calls[k][1] # name

\* The flusher hands the sink the engine's chunks in emission order, and has,
\* when it is done, handed over every chunk and then ended the response once.
ChunksInOrderThenEnd ==
  /\ IsPrefix(sink.writes, UpTo(emitted))
  /\ sink.ended > 0 => hpc = "done"
  /\ hpc = "done" =>
       /\ sink.writes = UpTo(emitted)
       /\ srcEnded
       /\ sink.ended = 1
       /\ Last(sink.ops) = "end"

\* C9 as stated: for a bot the Response is resolved only once onAllReady was
\* called, with the caller's status and Content-Type text/html, and the sink
\* receives every chunk in order and then completion.
C9_AgentResolvesCallerStatus ==
  strategy = "bot" =>
    /\ closure.promise.state = "resolved" =>
         /\ WasCalled("onAllReady")
         /\ closure.promise.value.status = callerStatus
         /\ HeadersGet(closure.promise.value.headers, "content-type") = "text/html"
    /\ ChunksInOrderThenEnd

\* C9 amended: as C9, but the status is the caller's only when no onError
\* preceded onAllReady, and 500 when one did.
C9_AgentStrategy ==
  strategy = "bot" =>
    /\ closure.promise.state = "resolved" =>
         /\ WasCalled("onAllReady")
         /\ closure.promise.value.status =
              (IF ErrorBefore("onAllReady") THEN 500 ELSE callerStatus)
         /\ HeadersGet(closure.promise.value.headers, "content-type") = "text/html"
    /\ ChunksInOrderThenEnd

\* C9 witness: a bot's response with the caller's status 404, flushed whole.
C9_Witness ==
  /\ strategy = "bot" /\ hpc = "done"
  /\ callerStatus = 404 /\ sink.statusCode = 404
  /\ HeadersGet(sink.headers, "content-type") = "text/html"
  /\ Len(sink.writes) >= 2 /\ sink.writes = UpTo(emitted)
  /\ sink.ended = 1

\* Every status and header operation on the sink precedes every write.
HeadBeforeWrites ==
  \A i, j \in 1..Len(sink.ops) :
    (sink.ops[i] = "write" /\ sink.ops[j] \in {"status", "statusMessage", "header"})
      => j < i

\* C10: for a browser the Response is resolved in the onShellReady call,
\* without waiting for all content; the status and headers of that Response
\* are on the sink before any chunk is written; the chunks reach the sink in
\* emission order, all of them once the flusher is done.
C10_InteractiveStrategy ==
  strategy = "browser" =>
    /\ WasCalled("onShellReady") <=> closure.promise.state = "resolved"
    /\ engine = "shell" => closure.promise.state = "resolved"
    /\ sink.writes # <<>> =>
         /\ sink.statusCode = closure.promise.value.status
         /\ sink.headers = HeadersEntries(closure.promise.value.headers)
         /\ "status" \in Range(sink.ops) /\ "header" \in Range(sink.ops)
    /\ HeadBeforeWrites
    /\ ChunksInOrderThenEnd

\* C10 witness: chunks are on the sink while the engine has not reported
\* all content ready.
C10_Witness ==
  /\ strategy = "browser" /\ engine = "shell"
  /\ hpc = "flushing"
  /\ Len(sink.writes) >= 2 /\ sink.writes = UpTo(emitted)
  /\ sink.statusCode = callerStatus

\* The Response the flusher was handed.
FlushedResponse == handleRequestResult(closure.promise).value

\* The step of the flusher's sequence a sink operation belongs to.
OpStep(op) ==
  CASE op \in {"status", "statusMessage"} -> 1
    [] op = "header"                       -> 2
    [] op = "flushHeaders"                 -> 3
    [] op = "write"                        -> 4
    [] op = "end"                          -> 5

\* The status line and every header of the Response are on the sink.
HeadOnSink ==
  /\ sink.statusCode = FlushedResponse.status
  /\ sink.statusMessage = FlushedResponse.statusText
  /\ {"status", "statusMessage"} \subseteq Range(sink.ops)
  /\ \A e \in Range(HeadersEntries(FlushedResponse.headers)) :
       IF e[1] = "set-cookie"
       THEN \E line \in Range(sink.headers) : line[1] = "set-cookie"
       ELSE e \in Range(sink.headers)

\* C11: the flusher sets the status line, then writes every header, then
\* writes the body chunks, then ends the sink: no sink operation comes
\* before one of an earlier step, no chunk is written before the status
\* line and every header are on the sink, and end is called at most once,
\* exactly once when the flusher has completed, after the last chunk the
\* body yielded.
C11_FlusherOrdering ==
  /\ \A i, j \in 1..Len(sink.ops) : i < j => OpStep(sink.ops[i]) <= OpStep(sink.ops[j])
  /\ (sink.writes # <<>> \/ sink.ended > 0) => HeadOnSink
  /\ sink.ended = Cardinality({i \in 1..Len(sink.ops) : sink.ops[i] = "end"})
  /\ sink.ended = (IF hpc = "done" THEN 1 ELSE 0)
  /\ hpc = "done" =>
       /\ Last(sink.ops) = "end"
       /\ FlushedResponse.hasBody => srcEnded /\ sink.writes = UpTo(emitted)
       /\ ~FlushedResponse.hasBody => sink.writes = <<>>

\* A Response with two headers and a body of MaxChunks chunks was flushed
\* to its end.
C11_Witness ==
  /\ hpc = "done"
  /\ Len(FlushedResponse.headers) = 2
  /\ Len(sink.writes) = MaxChunks /\ MaxChunks >= 2
  /\ sink.ended = 1

\* C12: the stream made by createReadableStreamFromReadable holds one chunk
\* per 'data' event, in emission order, and is closed exactly when 'end'
\* was emitted; the chunks the flusher has written followed by the chunks
\* still queued are the chunks emitted so far, in order (none dropped,
\* duplicated, merged or reordered), however emission and consumption
\* interleave; a completed flush has written every one of them.
C12_PassThrough ==
  /\ sink.writes \o body.queue = UpTo(emitted)
  /\ body.closed = srcEnded
  /\ hpc = "done" => srcEnded /\ sink.writes = UpTo(emitted)

\* The source emitted MaxChunks chunks and 'end' while the flusher had not
\* caught up, and the flusher has written some of them.
C12_Witness ==
  /\ emitted = MaxChunks /\ MaxChunks >= 2
  /\ srcEnded
  /\ Len(sink.writes) = 1
  /\ Len(body.queue) = MaxChunks - 1

\* C13: once the adapter has materialized the Request, the Request has a
\* body exactly when the method is neither GET nor HEAD, and the socket
\* stream carries the adapter's 'data' and 'end' listeners exactly then;
\* for GET and HEAD no listener is ever attached to the stream.
C13_BodyIffNotGetHead ==
  /\ hpc = "init" => ~req.hasBody /\ req.listeners = {}
  /\ hpc # "init" =>
       /\ req.hasBody <=> req.method \notin {"GET", "HEAD"}
       /\ req.listeners = (IF req.method \in {"GET", "HEAD"} THEN {} ELSE {"data", "end"})
  /\ req.method \in {"GET", "HEAD"} => req.emitted = 0 /\ req.stream.queue = <<>>

\* A HEAD request was materialized and its client then went away.
C13_Witness ==
  /\ hpc = "created"
  /\ req.method = "HEAD"
  /\ req.state = "closed"
  /\ ~req.hasBody

\* The values held under a header name, in order.
Values(h, name) ==
  LET lines == SelectSeq(h, LAMBDA e : e[1] = name)
  IN [i \in 1..Len(lines) |-> lines[i][2]]

\* The Response carries two set-cookie values, each one cookie of its own.
TwoIndependentCookies ==
  /\ Len(Values(FlushedResponse.headers, "set-cookie")) = 2
  /\ Range(Values(FlushedResponse.headers, "set-cookie")) = {Cookie1, Cookie2}

\* C14: once the flusher has written the head of a Response with two
\* independent Set-Cookie values (one with a comma inside its Expires
\* date), the sink's Set-Cookie lines are exactly those two values, as two
\* lines, in the Response's order: none merged, none split further.
C14_SetCookieRoundTrip ==
  (hpc \in {"flushing", "done"} /\ TwoIndependentCookies) =>
    Values(sink.headers, "set-cookie") = Values(FlushedResponse.headers, "set-cookie")

\* toNodeRequest flushed the Response whose first cookie is the one with
\* the Expires date, and the sink holds both lines.
C14_Witness ==
  /\ adapter = "vite" /\ hpc = "done"
  /\ Values(FlushedResponse.headers, "set-cookie") = <<Cookie2, Cookie1>>
  /\ Values(sink.headers, "set-cookie") = <<Cookie2, Cookie1>>

\* The render has reached a terminal outcome: the Response was resolved and
\* its stream has completed, or the promise was rejected by onShellError.
TerminalOutcome ==
  \/ closure.promise.state = "resolved" /\ srcEnded
  \/ closure.promise.state = "rejected"

\* C15: once the render has reached a terminal outcome the deadline timer
\* is canceled: from then on it never fires and never invokes abort.
C15_TimerCanceled ==
  [][TerminalOutcome =>
       /\ abortCalls' = abortCalls
       /\ \A i \in 1..Len(timers) : timers'[i].fired = timers[i].fired]_vars

\* C16: whenever the flusher has written the head of a Response that
\* declares text/event-stream, it has called flushHeaders, after the
\* headers and before any body chunk, whether or not the body has yielded
\* a chunk yet.
C16_EventStreamFlush ==
  (hpc \in {"flushing", "done"} /\ IsEventStream(FlushedResponse.headers)) =>
    \E k \in 1..Len(sink.ops) :
      /\ sink.ops[k] = "flushHeaders"
      /\ \A i \in 1..Len(sink.ops) :
           /\ sink.ops[i] = "header" => i < k
           /\ sink.ops[i] = "write" => k < i

\* C18: a step of the flusher never replaces or removes a header line the
\* sink already holds under a name other than set-cookie: every such line
\* is still there after the step, and the lines the step adds under the
\* name come after it.
C18_AppendSemantics ==
  [][\A name \in {"content-type", "vary", "x-powered-by"} :
       IsPrefix(Values(sink.headers, name), Values(sink'.headers, name))]_vars

\* How many times the engine reported the error through onError (a shell
\* failure reports it there first and then through onShellError).
TimesReported(error) ==
  Cardinality({i \in 1..Len(calls) : calls[i] = <<"onError", error>>})

\* How many times the error was surfaced: logged by onError, or handed to
\* the caller as the promise's rejection.
TimesSurfaced(error) ==
  Cardinality({i \in 1..Len(closure.log) : closure.log[i] = error})
    + (IF closure.promise.state = "rejected" /\ closure.promise.value = error
       THEN 1 ELSE 0)

\* C17: every error the render engine has reported is surfaced exactly
\* once, by exactly one path: as many times as it was reported it was
\* either logged by onError or turned into the promise's rejection, never
\* both, never neither.
C17_SurfacedExactlyOnce ==
  \A error \in Errs \cup Range(ErrSeq) \cup {AbortErr} :
    TimesSurfaced(error) = TimesReported(error)

\* The ready callback that resolves the Response in the strategy that ran.
ReadyCallback == IF strategy = "bot" THEN "onAllReady" ELSE "onShellReady"

\* Position in calls of the ready callback's first call.
ReadyAt ==
  CHOOSE j \in 1..Len(calls) :
    calls[j][1] = ReadyCallback /\ \A k \in 1..(j-1) : calls[k][1] # ReadyCallback

\* The errors of the onError calls at the given positions, in order.
RECURSIVE ErrorsFrom(_)
ErrorsFrom(i) ==
  IF i > Len(calls) THEN <<>>
  ELSE (IF calls[i][1] = "onError" THEN <<calls[i][2]>> ELSE <<>>) \o ErrorsFrom(i + 1)

SourceStopped == req.hasBody /\ req.state \in {"ended", "errored", "closed"}

\* C19: once the push source under a body has stopped emitting ('end',
\* 'error' or a premature 'close'), the lazy byte sequence made from it is
\* closed or errored, so that its consumer terminates. A listener runs in
\* the step of its event and no later step touches the stream's state, so
\* a sequence still open in a state where the source has stopped stays
\* open in every behaviour from there.
C19_StoppedSourceSettles == SourceStopped => req.stream.closed
====
